---------------------------- MODULE Spec2Model ----------------------------
(***************************************************************************)
(* Model of extract-service/app/main.py: URL validation against SSRF, the  *)
(* rendered/streamed fetch with fallback, the HTML-to-text parser and the  *)
(* text normalisation pipeline.                                            *)
(*                                                                         *)
(* Four specifications share the module:                                   *)
(*   Spec          one extract request: validation, then the fetch step    *)
(*   SpecValidate  several callers inside _validate_public_http_url        *)
(*   SpecText      _format_code_blocks / _dedupe_blocks / _apply_limits    *)
(*   SpecParser    the _HTMLToTextParser state machine                     *)
(***************************************************************************)
EXTENDS Integers, Sequences, FiniteSets

(* ------------------------------ bounds --------------------------------- *)

\* callers that may be inside _validate_public_http_url at the same time
NumCallers == 2
\* longest address list getaddrinfo returns in the model
MaxAddrs == 2
\* largest chunk iter_content yields, in bytes
MaxChunk == 2
\* MAX_HTML_BYTES (main.py:20, default 5000000), scaled down to a few bytes
MAX_HTML_BYTES == 3
\* the cap of _apply_limits (main.py:413, 12000 characters), scaled down
LIMIT_CHARS == 4
\* longest input text of the normalisation
MaxTextLen == 5
\* tokens fed to the HTML parser
MaxTokens == 4

(* -------------------------- program constants -------------------------- *)

\* main.py:19, default of EXTRACT_MAX_REDIRECTS
MAX_REDIRECTS == 5

(* ------------------------------- state --------------------------------- *)

VARIABLES
    defaultTimeout,  \* socket.getdefaulttimeout(): process-wide; 0 stands for None
    pc,              \* per caller: position in extract / the functions it calls
    raw_url,         \* per caller: the parsed URL candidate (urlparse result)
    timeout_s,       \* per caller: effective timeout in seconds
    old_timeout,     \* per caller: local old_timeout of _validate_public_http_url
    infos,           \* per caller: what socket.getaddrinfo did
    pending,         \* per caller: what the try block of validation decided
    resp,            \* per caller: HTTP response of the service (status 0: none yet)
    rendered,        \* per caller: outcome of _fetch_html_rendered
    streamStarted,   \* per caller: _fetch_html was called
    hops,            \* per caller: redirects followed by session.get
    target,          \* per caller: host the next streamed request goes to
    contacted,       \* per caller: hosts a request has been sent to
    r_stream,        \* per caller: response r of _fetch_html: "none", "open", "closed"
    r_status,        \* per caller: r.status_code
    buf,             \* per caller: len(buf) in _fetch_html
    streamOut,       \* per caller: how _fetch_html ended
    fetchOut,        \* per caller: how _fetch_html_best_effort ended
    text,            \* the text handed to the normalisation (a sequence of characters)
    stage,           \* how far the normalisation of text has come
    formatted,       \* local formatted of extract, lines 486-492
    once,            \* _apply_limits(text)
    twice,           \* _apply_limits(_apply_limits(text))
    parts,           \* _HTMLToTextParser.parts, joined
    _skip_depth,     \* _HTMLToTextParser._skip_depth
    _in_pre,         \* _HTMLToTextParser._in_pre
    last,            \* the token the parser handled last
    fed              \* number of tokens the parser has handled

valVars == <<defaultTimeout, pc, raw_url, timeout_s, old_timeout, infos, pending, resp>>
fetchVars == <<rendered, streamStarted, hops, target, contacted, r_stream, r_status,
               buf, streamOut, fetchOut>>
valVars_but_pc == <<defaultTimeout, raw_url, timeout_s, old_timeout, infos, pending, resp>>
textVars == <<text, stage, formatted, once, twice>>
parserVars == <<parts, _skip_depth, _in_pre, last, fed>>
vars == <<valVars, fetchVars, textVars, parserVars>>

\* no token handled yet
NoToken == [kind |-> "none", tag |-> "", skipped |-> FALSE]

Callers == 1..NumCallers

(* ------------------------------ inputs --------------------------------- *)

Schemes == {"https", "ftp"}

\* hosts of the model: special names, IP literals, domain names
Hosts == {"", "localhost", "app.localhost", "nas.local",
          "93.184.216.34", "10.0.0.7", "127.0.0.1",
          "example.com"}

\* strings ipaddress.ip_address parses
IpLiterals == {"93.184.216.34", "10.0.0.7", "127.0.0.1", "169.254.169.254"}

\* addresses whose is_global is True
GlobalIps == {"93.184.216.34"}

\* addresses a resolver may answer with
ResolvedIps == {"93.184.216.34", "10.0.0.7"}

\* hosts an upstream server may redirect to
RedirectHosts == {"example.com", "127.0.0.1", "169.254.169.254"}

Urls == [scheme : Schemes, userinfo : BOOLEAN, host : Hosts]

\* raw timeout values of a request: below the range, inside it, above it
RawTimeouts == {0, 2, 500}

Min(a, b) == IF a < b THEN a ELSE b
Max(a, b) == IF a > b THEN a ELSE b

\* _parse_timeout_s for a raw value that int() accepts
_parse_timeout_s(raw) == Min(60, Max(1, Min(180, raw)))

\* sequences over S of length 0..n
SeqsUpTo(S, n) == UNION {[1..k -> S] : k \in 0..n}

(* ------------------------ exceptions and results ----------------------- *)

NoOutcome == [kind |-> "none", status |-> 0, detail |-> "", bytes |-> 0, cause |-> ""]

\* raise HTTPException(status_code=st, detail=d)
HTTPException(st, d, why) ==
    [kind |-> "http", status |-> st, detail |-> d, bytes |-> 0, cause |-> why]

\* any exception that is not an HTTPException
OtherException(name, why) ==
    [kind |-> "exc", status |-> 0, detail |-> name, bytes |-> 0, cause |-> why]

\* a returned HTML document of n bytes
Html(n, how) == [kind |-> "html", status |-> 0, detail |-> "", bytes |-> n, cause |-> how]

NoResp == [status |-> 0, detail |-> ""]

\* _http_exception_handler and _unhandled_exception_handler
ExceptionResponse(e) ==
    IF e.kind = "http"
    THEN [status |-> e.status, detail |-> e.detail]
    ELSE [status |-> 500, detail |-> "internal error"]

(* ---------------------------- URL validation --------------------------- *)

_is_public_ip(ip) == ip \in IpLiterals /\ ip \in GlobalIps

\* hostname.endswith(".localhost") / hostname.endswith(".local") on the model's hosts
EndsWithLocalhost(h) == h \in {"app.localhost"}
EndsWithLocal(h) == h \in {"nas.local"}

\* lines 98-118: the checks before name resolution.
\* "reject": HTTPException 422; "accept": return s; "resolve": go on to line 120
ValidatePrecheck(u) ==
    IF u.scheme \notin {"http", "https"} THEN "reject"
    ELSE IF u.host = "" \/ u.userinfo THEN "reject"
    ELSE IF u.host = "localhost" \/ EndsWithLocalhost(u.host) \/ EndsWithLocal(u.host)
         THEN "reject"
    ELSE IF _is_public_ip(u.host) THEN "accept"
    ELSE IF u.host \in IpLiterals THEN "reject"
    ELSE "resolve"

NoInfos == [state |-> "unset", addrs |-> <<>>]

\* what socket.getaddrinfo can do: raise, or return a list of addresses
GetaddrinfoResults ==
    {[state |-> "raised", addrs |-> <<>>]}
    \cup {[state |-> "returned", addrs |-> a] : a \in SeqsUpTo(ResolvedIps, MaxAddrs)}

\* lines 123-132: the try block; "reject" is the HTTPException 422 it raises
ResolveDecision(res) ==
    IF res.state = "raised" THEN "reject"
    ELSE IF \E i \in 1..Len(res.addrs) : ~_is_public_ip(res.addrs[i]) THEN "reject"
    ELSE "accept"

InvalidUrl == [status |-> 422, detail |-> "Invalid url"]

\* extract, lines 447 via _extract_input: a request arrives with a URL and a timeout
Start(c) ==
    /\ pc[c] = "idle"
    /\ \E u \in Urls, t \in RawTimeouts :
          /\ raw_url' = [raw_url EXCEPT ![c] = u]
          /\ timeout_s' = [timeout_s EXCEPT ![c] = _parse_timeout_s(t)]
    /\ pc' = [pc EXCEPT ![c] = "validate"]
    /\ UNCHANGED <<defaultTimeout, old_timeout, infos, pending, resp, fetchVars,
                   textVars, parserVars>>

\* _validate_public_http_url, lines 98-118
ValidateChecks(c) ==
    /\ pc[c] = "validate"
    /\ LET d == ValidatePrecheck(raw_url[c]) IN
          /\ pc' = [pc EXCEPT ![c] = CASE d = "reject" -> "done"
                                       [] d = "accept" -> "rendered"
                                       [] OTHER -> "v_save"]
          /\ resp' = [resp EXCEPT ![c] = IF d = "reject" THEN InvalidUrl ELSE @]
    /\ UNCHANGED <<defaultTimeout, raw_url, timeout_s, old_timeout, infos, pending,
                   fetchVars, textVars, parserVars>>

\* line 120: old_timeout = socket.getdefaulttimeout()
ValSaveTimeout(c) ==
    /\ pc[c] = "v_save"
    /\ old_timeout' = [old_timeout EXCEPT ![c] = defaultTimeout]
    /\ pc' = [pc EXCEPT ![c] = "v_set"]
    /\ UNCHANGED <<defaultTimeout, raw_url, timeout_s, infos, pending, resp, fetchVars,
                   textVars, parserVars>>

\* line 121: socket.setdefaulttimeout(min(3, timeout_s))
ValSetTimeout(c) ==
    /\ pc[c] = "v_set"
    /\ defaultTimeout' = Min(3, timeout_s[c])
    /\ pc' = [pc EXCEPT ![c] = "v_resolve"]
    /\ UNCHANGED <<raw_url, timeout_s, old_timeout, infos, pending, resp, fetchVars,
                   textVars, parserVars>>

\* lines 122-132: getaddrinfo and the loop over its results
ValResolve(c) ==
    /\ pc[c] = "v_resolve"
    /\ \E res \in GetaddrinfoResults :
          /\ infos' = [infos EXCEPT ![c] = res]
          /\ pending' = [pending EXCEPT ![c] = ResolveDecision(res)]
    /\ pc' = [pc EXCEPT ![c] = "v_restore"]
    /\ UNCHANGED <<defaultTimeout, raw_url, timeout_s, old_timeout, resp, fetchVars,
                   textVars, parserVars>>

\* lines 133-136: finally: socket.setdefaulttimeout(old_timeout); then raise or return s
ValRestoreTimeout(c) ==
    /\ pc[c] = "v_restore"
    /\ defaultTimeout' = old_timeout[c]
    /\ pc' = [pc EXCEPT ![c] = IF pending[c] = "reject" THEN "done" ELSE "rendered"]
    /\ resp' = [resp EXCEPT ![c] = IF pending[c] = "reject" THEN InvalidUrl ELSE @]
    /\ UNCHANGED <<raw_url, timeout_s, old_timeout, infos, pending, fetchVars,
                   textVars, parserVars>>

Init ==
    /\ defaultTimeout = 0
    /\ pc = [c \in Callers |-> "idle"]
    /\ raw_url = [c \in Callers |-> [scheme |-> "https", userinfo |-> FALSE, host |-> ""]]
    /\ timeout_s = [c \in Callers |-> 15]
    /\ old_timeout = [c \in Callers |-> 0]
    /\ infos = [c \in Callers |-> NoInfos]
    /\ pending = [c \in Callers |-> "none"]
    /\ resp = [c \in Callers |-> NoResp]
    /\ rendered = [c \in Callers |-> NoOutcome]
    /\ streamStarted = [c \in Callers |-> FALSE]
    /\ hops = [c \in Callers |-> 0]
    /\ target = [c \in Callers |-> ""]
    /\ contacted = [c \in Callers |-> {}]
    /\ r_stream = [c \in Callers |-> "none"]
    /\ r_status = [c \in Callers |-> 0]
    /\ buf = [c \in Callers |-> 0]
    /\ streamOut = [c \in Callers |-> NoOutcome]
    /\ fetchOut = [c \in Callers |-> NoOutcome]
    /\ text = <<>>
    /\ stage = "input"
    /\ formatted = <<>>
    /\ once = <<>>
    /\ twice = <<>>
    /\ parts = <<>>
    /\ _skip_depth = 0
    /\ _in_pre = FALSE
    /\ last = NoToken
    /\ fed = 0

\* a caller whose validation call has ended issues another one
CallAgain(c) ==
    /\ pc[c] \in {"done", "rendered"}
    /\ pc' = [pc EXCEPT ![c] = "idle"]
    /\ infos' = [infos EXCEPT ![c] = NoInfos]
    /\ pending' = [pending EXCEPT ![c] = "none"]
    /\ resp' = [resp EXCEPT ![c] = NoResp]
    /\ old_timeout' = [old_timeout EXCEPT ![c] = 0]
    /\ raw_url' = [raw_url EXCEPT ![c] = [scheme |-> "https", userinfo |-> FALSE, host |-> ""]]
    /\ timeout_s' = [timeout_s EXCEPT ![c] = 15]
    /\ UNCHANGED <<defaultTimeout, fetchVars, textVars, parserVars>>

NextValidate ==
    \E c \in Callers :
        \/ Start(c)
        \/ ValidateChecks(c)
        \/ ValSaveTimeout(c)
        \/ ValSetTimeout(c)
        \/ ValResolve(c)
        \/ ValRestoreTimeout(c)
        \/ CallAgain(c)

SpecValidate == Init /\ [][NextValidate]_vars

(* ------------------------------ the fetch ------------------------------ *)

\* what can happen inside _fetch_html_rendered
RenderedEvents == {"import_error", "pw_timeout", "empty", "error", "content"}

\* _fetch_html_rendered, lines 171-196: the result for each event; n is the byte
\* length of page.content() after strip()
_fetch_html_rendered(ev, n) ==
    CASE ev = "import_error" -> OtherException("RuntimeError", "playwright unavailable")
      [] ev = "pw_timeout"   -> HTTPException(504, "timeout", "timeout")
      [] ev = "empty"        -> HTTPException(502, "fetch failed: empty html", "empty")
      [] ev = "error"        -> HTTPException(502, "fetch failed: <reason>", "error")
      [] OTHER               -> Html(n, "rendered")

\* _fetch_html_best_effort with the test of line 248 left out: every HTTPException of
\* the rendered fetch, the timeout included, falls back to the streamed fetch
BestEffortDecision_NoTimeoutTest(o) ==
    IF o.kind = "html" THEN "return" ELSE "fallback"

\* _fetch_html_best_effort, lines 245-252: what it does with the rendered outcome
BestEffortDecision(o) ==
    IF o.kind = "html" THEN "return"
    ELSE IF o.kind = "http" THEN (IF o.status = 504 THEN "raise" ELSE "fallback")
    ELSE "fallback"

\* line 246: await _fetch_html_rendered(url, timeout_s); the browser requests the URL
FetchRendered(c) ==
    /\ pc[c] = "rendered"
    /\ \E ev \in RenderedEvents, n \in 1..(MAX_HTML_BYTES + 1) :
          /\ ev # "content" => n = 1
          /\ rendered' = [rendered EXCEPT ![c] = _fetch_html_rendered(ev, n)]
          /\ contacted' = [contacted EXCEPT ![c] =
                              IF ev = "import_error" THEN @ ELSE @ \cup {raw_url[c].host}]
    /\ pc' = [pc EXCEPT ![c] = "best_effort"]
    /\ UNCHANGED <<textVars, parserVars, valVars_but_pc, streamStarted, hops, target,
                   r_stream, r_status, buf, streamOut, fetchOut>>

\* lines 245-252: return the rendered HTML, re-raise the timeout, or call _fetch_html
BestEffort(c) ==
    /\ pc[c] = "best_effort"
    /\ LET d == BestEffortDecision(rendered[c]) IN
          /\ pc' = [pc EXCEPT ![c] = CASE d = "return" -> "fetched"
                                       [] d = "raise" -> "done"
                                       [] OTHER -> "s_get"]
          /\ fetchOut' = [fetchOut EXCEPT ![c] = IF d = "fallback" THEN @ ELSE rendered[c]]
          /\ resp' = [resp EXCEPT ![c] =
                         IF d = "raise" THEN ExceptionResponse(rendered[c]) ELSE @]
          /\ streamStarted' = [streamStarted EXCEPT ![c] = (d = "fallback")]
          /\ target' = [target EXCEPT ![c] = IF d = "fallback" THEN raw_url[c].host ELSE @]
    /\ UNCHANGED <<defaultTimeout, raw_url, timeout_s, old_timeout, infos, pending,
                   textVars, parserVars>>
    /\ UNCHANGED <<rendered, hops, contacted, r_stream, r_status, buf, streamOut>>

UpstreamStatuses == {200, 404}

\* _fetch_html ends with exception or result o: control is back in
\* _fetch_html_best_effort
StreamEnds(c, o) ==
    /\ streamOut' = [streamOut EXCEPT ![c] = o]
    /\ pc' = [pc EXCEPT ![c] = "s_end"]

\* lines 209-221: session.get sends one request to the current target; the reply is
\* a redirect (followed while fewer than session.max_redirects were), a timeout, a
\* transport error, or the response r
StreamGet(c) ==
    /\ pc[c] = "s_get"
    /\ contacted' = [contacted EXCEPT ![c] = @ \cup {target[c]}]
    /\ \/ \E h \in RedirectHosts :
             IF hops[c] < MAX_REDIRECTS
             THEN /\ hops' = [hops EXCEPT ![c] = @ + 1]
                  /\ target' = [target EXCEPT ![c] = h]
                  /\ UNCHANGED <<pc, streamOut, r_stream, r_status>>
             ELSE /\ StreamEnds(c, HTTPException(502,
                                   "fetch failed: too many redirects (<reason>)", "redirects"))
                  /\ UNCHANGED <<hops, target, r_stream, r_status>>
       \/ /\ StreamEnds(c, HTTPException(504, "timeout", "timeout"))
          /\ UNCHANGED <<hops, target, r_stream, r_status>>
       \/ /\ StreamEnds(c, HTTPException(502, "fetch failed: <reason>", "connection"))
          /\ UNCHANGED <<hops, target, r_stream, r_status>>
       \/ \E st \in UpstreamStatuses :
             /\ r_stream' = [r_stream EXCEPT ![c] = "open"]
             /\ r_status' = [r_status EXCEPT ![c] = st]
             /\ pc' = [pc EXCEPT ![c] = "s_status"]
             /\ UNCHANGED <<hops, target, streamOut>>
    /\ UNCHANGED <<textVars, parserVars, valVars_but_pc, rendered, streamStarted, buf,
                   fetchOut>>

\* lines 223-226: the status check, before the try block that closes r
StreamStatus(c) ==
    /\ pc[c] = "s_status"
    /\ IF r_status[c] >= 400
       THEN StreamEnds(c, HTTPException(502, "fetch failed: upstream http <code>", "status"))
       ELSE /\ pc' = [pc EXCEPT ![c] = "s_read"]
            /\ UNCHANGED streamOut
    /\ UNCHANGED <<textVars, parserVars, valVars_but_pc, rendered, streamStarted, hops,
                   target, contacted, r_stream, r_status, buf, fetchOut>>

\* lines 227-235: one round of the loop over r.iter_content: a chunk of n bytes, the
\* end of the body, or an exception of the transport; the finally closes r
StreamRead(c) ==
    /\ pc[c] = "s_read"
    /\ \/ \E n \in 0..MaxChunk :
             IF n = 0
             THEN UNCHANGED <<buf, r_stream, pc, streamOut>>
             ELSE /\ buf' = [buf EXCEPT ![c] = @ + n]
                  /\ IF buf[c] + n > MAX_HTML_BYTES
                     THEN /\ r_stream' = [r_stream EXCEPT ![c] = "closed"]
                          /\ StreamEnds(c, HTTPException(502,
                                           "fetch failed: html too large", "too_large"))
                     ELSE UNCHANGED <<r_stream, pc, streamOut>>
       \/ /\ r_stream' = [r_stream EXCEPT ![c] = "closed"]
          /\ pc' = [pc EXCEPT ![c] = "s_decode"]
          /\ UNCHANGED <<buf, streamOut>>
       \/ /\ r_stream' = [r_stream EXCEPT ![c] = "closed"]
          /\ StreamEnds(c, OtherException("ConnectionError", "read_timeout"))
          /\ UNCHANGED buf
       \/ /\ r_stream' = [r_stream EXCEPT ![c] = "closed"]
          /\ StreamEnds(c, OtherException("ChunkedEncodingError", "read_error"))
          /\ UNCHANGED buf
    /\ UNCHANGED <<textVars, parserVars, valVars_but_pc, rendered, streamStarted, hops,
                   target, contacted, r_status, fetchOut>>

\* what decoding the body gives: text, only whitespace, or an unknown codec name
DecodeEvents == {"text", "blank", "unknown_encoding"}

\* lines 237-241: decode, strip, the empty check, return
StreamDecode(c) ==
    /\ pc[c] = "s_decode"
    /\ \E ev \in DecodeEvents :
          CASE ev = "unknown_encoding" ->
                  StreamEnds(c, OtherException("LookupError", "encoding"))
            [] ev = "blank" \/ buf[c] = 0 ->
                  StreamEnds(c, HTTPException(502, "fetch failed: empty html", "empty"))
            [] OTHER ->
                  StreamEnds(c, Html(buf[c], "streamed"))
    /\ UNCHANGED <<textVars, parserVars, valVars_but_pc, rendered, streamStarted, hops,
                   target, contacted, r_stream, r_status, buf, fetchOut>>

\* lines 250 and 252: return _fetch_html(url, timeout_s); an exception goes on to
\* extract's caller and the exception handlers of lines 26-41
BestEffortFallbackEnds(c) ==
    /\ pc[c] = "s_end"
    /\ fetchOut' = [fetchOut EXCEPT ![c] = streamOut[c]]
    /\ pc' = [pc EXCEPT ![c] = IF streamOut[c].kind = "html" THEN "fetched" ELSE "done"]
    /\ resp' = [resp EXCEPT ![c] =
                   IF streamOut[c].kind = "html" THEN @ ELSE ExceptionResponse(streamOut[c])]
    /\ UNCHANGED <<defaultTimeout, raw_url, timeout_s, old_timeout, infos, pending,
                   textVars, parserVars>>
    /\ UNCHANGED <<rendered, streamStarted, hops, target, contacted, r_stream, r_status,
                   buf, streamOut>>

\* one extract request, from its arrival to the end of the fetch step
Next ==
    \/ Start(1)
    \/ ValidateChecks(1)
    \/ ValSaveTimeout(1)
    \/ ValSetTimeout(1)
    \/ ValResolve(1)
    \/ ValRestoreTimeout(1)
    \/ FetchRendered(1)
    \/ BestEffort(1)
    \/ StreamGet(1)
    \/ StreamStatus(1)
    \/ StreamRead(1)
    \/ StreamDecode(1)
    \/ BestEffortFallbackEnds(1)

Spec == Init /\ [][Next]_vars

(* ------------------------- claims on the service ----------------------- *)

\* the call of _validate_public_http_url by caller c has ended, or not begun
ValidationOver(c) == pc[c] \notin {"validate", "v_save", "v_set", "v_resolve", "v_restore"}

\* _fetch_html_best_effort has handled the outcome of the rendered fetch
AfterBestEffort(c) ==
    /\ rendered[c].kind # "none"
    /\ pc[c] \in {"s_get", "s_status", "s_read", "s_decode", "s_end", "fetched", "done"}

RenderedFailed(c) == rendered[c].kind \in {"http", "exc"}

\* C1: a URL whose host is a domain name is accepted only if name resolution
\* succeeded, returned at least one address and every address is public; it is
\* rejected with 422 'Invalid url' when resolution fails, returns no address, or
\* returns a non-public address.
C1_DomainAcceptedIffAllResolvedPublic ==
    \A c \in Callers :
        (infos[c].state # "unset" /\ ValidationOver(c)) =>
            LET good == /\ infos[c].state = "returned"
                        /\ Len(infos[c].addrs) >= 1
                        /\ \A i \in 1..Len(infos[c].addrs) : infos[c].addrs[i] \in GlobalIps
            IN  IF good THEN resp[c].status # 422 ELSE resp[c] = InvalidUrl

\* C2: the rendered fetch is tried first; the streamed fetch is started if and only
\* if the rendered fetch failed with something other than a timeout; a rendered
\* timeout ends the request with 504 'timeout' and no streamed fetch; after any
\* other rendered failure the outcome is exactly that of the streamed fetch.
C2_FallbackIffNonTimeoutFailure ==
    \A c \in Callers :
        /\ streamStarted[c] => (RenderedFailed(c) /\ rendered[c].cause # "timeout")
        /\ (AfterBestEffort(c) /\ RenderedFailed(c) /\ rendered[c].cause # "timeout")
              => streamStarted[c]
        /\ (AfterBestEffort(c) /\ rendered[c].cause = "timeout")
              => /\ pc[c] = "done"
                 /\ resp[c] = [status |-> 504, detail |-> "timeout"]
                 /\ ~streamStarted[c]
                 /\ streamOut[c] = NoOutcome
        /\ (streamStarted[c] /\ pc[c] \in {"fetched", "done"})
              => /\ fetchOut[c] = streamOut[c]
                 /\ streamOut[c].kind # "none"
                 /\ (pc[c] = "fetched") = (streamOut[c].kind = "html")
                 /\ (pc[c] = "done") => resp[c] = ExceptionResponse(streamOut[c])

\* C2 witness: the rendered fetch failed without a timeout and the request ended
\* with the document of the streamed fetch.
C2_Witness ==
    \E c \in Callers :
        /\ rendered[c].kind = "http" /\ rendered[c].status = 502
        /\ pc[c] = "fetched"
        /\ fetchOut[c].cause = "streamed"

\* C3: every failure of the streamed fetch surfaces as 504 or 502, a transport
\* timeout always as 504, and never as 500.
C3_StreamFailuresAre502Or504 ==
    \A c \in Callers :
        (pc[c] = "done" /\ streamStarted[c] /\ streamOut[c].kind \in {"http", "exc"}) =>
            /\ resp[c].status \in {502, 504}
            /\ streamOut[c].cause \in {"timeout", "read_timeout"} => resp[c].status = 504

\* C4: every document the fetch step returns, rendered or streamed, has at most
\* MAX_HTML_BYTES bytes.
C4_FetchedHtmlWithinCap ==
    \A c \in Callers :
        pc[c] = "fetched" => fetchOut[c].bytes <= MAX_HTML_BYTES

\* C5: once the streamed fetch has obtained a response, the response is closed on
\* every path out of _fetch_html.
C5_ResponseClosedOnEveryExit ==
    \A c \in Callers :
        (pc[c] \in {"s_end", "fetched", "done"} /\ r_stream[c] # "none") =>
            r_stream[c] = "closed"

\* C6: when every call of _validate_public_http_url has finished, the process-wide
\* default socket timeout has the value it had before the first call began.
C6_DefaultTimeoutRestored ==
    (\A c \in Callers : ValidationOver(c)) => defaultTimeout = 0

\* hosts that are loopback, link-local or private
NonPublicHosts == {"localhost", "app.localhost", "nas.local", "10.0.0.7", "127.0.0.1",
                   "169.254.169.254"}

\* C9: every request the service sends, redirect hops included, goes to the host
\* that passed URL validation, and never to a loopback, link-local or private address.
C9_RequestsOnlyToValidatedHosts ==
    \A c \in Callers :
        \A h \in contacted[c] :
            /\ h = raw_url[c].host
            /\ h \notin NonPublicHosts

(* ------------------------- text normalisation -------------------------- *)

\* characters of the model's texts; "A" is the upper case of "a"
Alphabet == {"a", "A", " ", "\t", "\n", "\r"}

\* input texts of the pipeline
Texts == SeqsUpTo(Alphabet, MaxTextLen)

\* the marker of line 414: "\n\n" and the nine characters of the notice
Marker == <<"\n", "\n", "(", "nei", "rong", "guo", "chang", "yi", "jie", "duan", ")">>

\* lead lines _build_lead can give: none, or one of a single character
Leads == {<<>>, <<"L">>}

\* what str.strip() and \s take for whitespace
Whitespace == {" ", "\t", "\n", "\r"}

RECURSIVE LStrip(_)
LStrip(s) == IF s # <<>> /\ Head(s) \in Whitespace THEN LStrip(Tail(s)) ELSE s

RECURSIVE RStrip(_)
RStrip(s) ==
    IF s # <<>> /\ s[Len(s)] \in Whitespace THEN RStrip(SubSeq(s, 1, Len(s) - 1)) ELSE s

\* str.strip()
Strip(s) == LStrip(RStrip(s))

StartsWith(s, p) == Len(s) >= Len(p) /\ SubSeq(s, 1, Len(p)) = p

EndsWith(s, p) == Len(s) >= Len(p) /\ SubSeq(s, Len(s) - Len(p) + 1, Len(s)) = p

\* str.lower()
Lower(s) == [i \in 1..Len(s) |-> IF s[i] = "A" THEN "a" ELSE s[i]]

RECURSIVE SplitFrom(_, _, _)
SplitFrom(s, sep, cur) ==
    IF s = <<>> THEN <<cur>>
    ELSE IF StartsWith(s, sep)
         THEN <<cur>> \o SplitFrom(SubSeq(s, Len(sep) + 1, Len(s)), sep, <<>>)
         ELSE SplitFrom(Tail(s), sep, Append(cur, Head(s)))

\* str.split(sep): left to right, separators do not overlap
Split(s, sep) == SplitFrom(s, sep, <<>>)

RECURSIVE Join(_, _)
\* sep.join(list)
Join(list, sep) ==
    IF list = <<>> THEN <<>>
    ELSE IF Len(list) = 1 THEN list[1]
    ELSE list[1] \o sep \o Join(Tail(list), sep)

RECURSIVE Replace(_, _, _)
\* str.replace(old, new)
Replace(s, old, new) ==
    IF s = <<>> THEN <<>>
    ELSE IF StartsWith(s, old)
         THEN new \o Replace(SubSeq(s, Len(old) + 1, Len(s)), old, new)
         ELSE <<Head(s)>> \o Replace(Tail(s), old, new)

RECURSIVE DropWhile(_, _)
\* s without its leading run of characters of class
DropWhile(s, class) ==
    IF s # <<>> /\ Head(s) \in class THEN DropWhile(Tail(s), class) ELSE s

RECURSIVE CollapseRuns(_, _)
\* re.sub(r"<class>+", " ", s)
CollapseRuns(s, class) ==
    IF s = <<>> THEN <<>>
    ELSE IF Head(s) \in class
         THEN <<" ">> \o CollapseRuns(DropWhile(s, class), class)
         ELSE <<Head(s)>> \o CollapseRuns(Tail(s), class)

RECURSIVE SquashNewlines(_)
\* re.sub(r"\n{3,}", "\n\n", s)
SquashNewlines(s) ==
    IF s = <<>> THEN <<>>
    ELSE IF Head(s) = "\n"
         THEN LET rest == DropWhile(s, {"\n"})
                  n == Len(s) - Len(rest)
              IN  (IF n >= 3 THEN <<"\n", "\n">> ELSE SubSeq(s, 1, n)) \o SquashNewlines(rest)
         ELSE <<Head(s)>> \o SquashNewlines(Tail(s))

RECURSIVE TrimBeforeNewline(_)
\* re.sub(r"[ \t]+\n", "\n", s)
TrimBeforeNewline(s) ==
    IF s = <<>> THEN <<>>
    ELSE IF Head(s) \in {" ", "\t"}
         THEN LET rest == DropWhile(s, {" ", "\t"})
              IN  IF rest # <<>> /\ Head(rest) = "\n"
                  THEN TrimBeforeNewline(rest)
                  ELSE SubSeq(s, 1, Len(s) - Len(rest)) \o TrimBeforeNewline(rest)
         ELSE <<Head(s)>> \o TrimBeforeNewline(Tail(s))

\* line 381: re.match(r"^(\t| {4,})\S", line)
IsCodeLine(line) ==
    LET n == Len(line) - Len(DropWhile(line, {" "}))
    IN  \/ Len(line) >= 2 /\ line[1] = "\t" /\ line[2] \notin Whitespace
        \/ n >= 4 /\ Len(line) > n /\ line[n + 1] \notin Whitespace

RECURSIVE PopBlank(_)
\* while out and out[-1] == "": out.pop()
PopBlank(out) ==
    IF out # <<>> /\ out[Len(out)] = <<>> THEN PopBlank(SubSeq(out, 1, Len(out) - 1)) ELSE out

RECURSIVE FormatLoop(_, _, _, _)
\* lines 380-403: the loop over the lines, then the closing of an open code region
FormatLoop(lines, i, out, in_code) ==
    IF i > Len(lines)
    THEN (IF in_code THEN Append(PopBlank(out), <<>>) ELSE out)
    ELSE LET line == lines[i]
             is_code == IsCodeLine(line)
             out1 == IF is_code /\ ~in_code
                     THEN (IF PopBlank(out) # <<>> THEN Append(PopBlank(out), <<>>)
                                                   ELSE PopBlank(out))
                     ELSE out
             in1 == IF is_code /\ ~in_code THEN TRUE ELSE in_code
             out2 == IF ~is_code /\ in1 THEN Append(PopBlank(out1), <<>>) ELSE out1
             in2 == IF ~is_code /\ in1 THEN FALSE ELSE in1
             piece == IF in2 THEN RStrip(line) ELSE CollapseRuns(Strip(line), {" ", "\t"})
         IN  FormatLoop(lines, i + 1, Append(out2, piece), in2)

\* lines 376-408
_format_code_blocks(txt) ==
    LET lines == Split(Replace(Replace(txt, <<"\r", "\n">>, <<"\n">>), <<"\r">>, <<"\n">>),
                       <<"\n">>)
        merged == Join(FormatLoop(lines, 1, <<>>, FALSE), <<"\n">>)
    IN  Strip(TrimBeforeNewline(SquashNewlines(merged)))

\* line 368: the whitespace-folded, case-folded key of a block
BlockKey(b) == Lower(Strip(CollapseRuns(b, Whitespace)))

RECURSIVE DedupeLoop(_, _, _, _)
\* lines 365-372
DedupeLoop(blocks, i, seen, out) ==
    IF i > Len(blocks) THEN out
    ELSE LET b == Strip(blocks[i])
             key == BlockKey(b)
         IN  IF b = <<>> \/ key = <<>> \/ key \in seen
             THEN DedupeLoop(blocks, i + 1, seen, out)
             ELSE DedupeLoop(blocks, i + 1, seen \cup {key}, Append(out, b))

\* lines 361-373
_dedupe_blocks(txt) ==
    Strip(Join(DedupeLoop(Split(txt, <<"\n", "\n">>), 1, {}, <<>>), <<"\n", "\n">>))

\* lines 411-415
_apply_limits(txt) ==
    LET s == Strip(txt)
    IN  IF Len(s) > LIMIT_CHARS
        THEN RStrip(SubSeq(s, 1, LIMIT_CHARS)) \o Marker
        ELSE s

InitText ==
    /\ text \in Texts
    /\ stage = "input"
    /\ formatted = <<>>
    /\ once = <<>>
    /\ twice = <<>>
    /\ defaultTimeout = 0
    /\ pc = [c \in Callers |-> "idle"]
    /\ raw_url = [c \in Callers |-> [scheme |-> "https", userinfo |-> FALSE, host |-> ""]]
    /\ timeout_s = [c \in Callers |-> 15]
    /\ old_timeout = [c \in Callers |-> 0]
    /\ infos = [c \in Callers |-> NoInfos]
    /\ pending = [c \in Callers |-> "none"]
    /\ resp = [c \in Callers |-> NoResp]
    /\ rendered = [c \in Callers |-> NoOutcome]
    /\ streamStarted = [c \in Callers |-> FALSE]
    /\ hops = [c \in Callers |-> 0]
    /\ target = [c \in Callers |-> ""]
    /\ contacted = [c \in Callers |-> {}]
    /\ r_stream = [c \in Callers |-> "none"]
    /\ r_status = [c \in Callers |-> 0]
    /\ buf = [c \in Callers |-> 0]
    /\ streamOut = [c \in Callers |-> NoOutcome]
    /\ fetchOut = [c \in Callers |-> NoOutcome]
    /\ parts = <<>>
    /\ _skip_depth = 0
    /\ _in_pre = FALSE
    /\ last = NoToken
    /\ fed = 0

\* line 486
FormatCodeBlocks ==
    /\ stage = "input"
    /\ formatted' = _format_code_blocks(text)
    /\ stage' = "formatted"
    /\ UNCHANGED <<text, once, twice, valVars, fetchVars, parserVars>>

\* line 487
DedupeBlocks ==
    /\ stage = "formatted"
    /\ formatted' = _dedupe_blocks(formatted)
    /\ stage' = "deduped"
    /\ UNCHANGED <<text, once, twice, valVars, fetchVars, parserVars>>

\* line 488
ApplyLimits ==
    /\ stage = "deduped"
    /\ formatted' = _apply_limits(formatted)
    /\ stage' = "limited"
    /\ UNCHANGED <<text, once, twice, valVars, fetchVars, parserVars>>

\* lines 490-492: with a lead line, prepend it and apply the limit again
PrependLead ==
    /\ stage = "limited"
    /\ \E lead \in Leads :
          formatted' = IF lead # <<>>
                       THEN _apply_limits(Strip(lead \o <<"\n", "\n">> \o formatted))
                       ELSE formatted
    /\ stage' = "assembled"
    /\ UNCHANGED <<text, once, twice, valVars, fetchVars, parserVars>>

\* _apply_limits on the input text itself
LimitOnce ==
    /\ stage = "input"
    /\ once' = _apply_limits(text)
    /\ stage' = "once"
    /\ UNCHANGED <<text, formatted, twice, valVars, fetchVars, parserVars>>

\* _apply_limits on its own result
LimitTwice ==
    /\ stage = "once"
    /\ twice' = _apply_limits(once)
    /\ stage' = "twice"
    /\ UNCHANGED <<text, formatted, once, valVars, fetchVars, parserVars>>

NextText ==
    \/ FormatCodeBlocks
    \/ DedupeBlocks
    \/ ApplyLimits
    \/ PrependLead
    \/ LimitOnce
    \/ LimitTwice

SpecText == InitText /\ [][NextText]_vars

(* ------------------- claims on the text normalisation ------------------ *)

\* the non-empty blocks of s, blank-line separated, as whitespace- and case-folded keys
BlockKeys(s) ==
    LET bs == Split(s, <<"\n", "\n">>)
    IN  [i \in 1..Len(bs) |-> BlockKey(bs[i])]

\* C7: truncation is idempotent: _apply_limits(_apply_limits(t)) = _apply_limits(t)
\* for every text t, also when t is over the cap and whitespace is trimmed at the cut.
C7_ApplyLimitsIdempotent ==
    stage = "twice" => twice = once

\* C8: the result of _format_code_blocks, _dedupe_blocks, _apply_limits has no two
\* blank-line-separated blocks that are equal after whitespace- and case-folding,
\* also when the cap cuts the text and appends the marker.
C8_NoDuplicateBlocksAfterPipeline ==
    stage = "limited" =>
        LET keys == BlockKeys(formatted)
        IN  \A i, j \in 1..Len(keys) : (i # j /\ keys[i] # <<>>) => keys[i] # keys[j]

(* --------------------------- HTML to text ------------------------------ *)

\* line 296 and 315
SkipTags == {"script", "style", "noscript"}

\* line 302
StartBlockTags == {"p", "div", "section", "article", "main", "header", "footer", "nav",
                   "aside", "h1", "h2", "h3", "h4", "h5", "h6", "blockquote"}

\* line 324
EndBlockTags == {"p", "div", "section", "article", "main", "header", "footer", "nav",
                 "aside", "blockquote", "li"}

\* tags of the tokens fed to the parser
Tags == {"p", "h2", "li", "br", "pre", "script", "span"}

\* text of the data tokens fed to the parser
Datas == {<<"a">>, <<" ">>, <<"a", "\n">>}

\* lines 276-285, on the joined buffer cur
_ensure_paragraph_break(cur) ==
    IF cur = <<>> THEN cur
    ELSE IF EndsWith(cur, <<"\n", "\n">>) THEN cur
    ELSE IF EndsWith(cur, <<"\n">>) THEN cur \o <<"\n">>
    ELSE cur \o <<"\n", "\n">>

\* lines 287-292
_newline(cur) == cur \o <<"\n">>

RECURSIVE PreLines(_, _, _)
\* lines 334-340: the loop over raw.split("\n"), giving what is appended
PreLines(lines, i, raw) ==
    IF i > Len(lines) THEN <<>>
    ELSE LET ln == lines[i]
             piece == IF ln = <<>> /\ EndsWith(raw, <<"\n">>) THEN <<"\n">>
                      ELSE (IF Strip(ln) # <<>> THEN <<" ", " ", " ", " ">> \o RStrip(ln)
                                                ELSE <<>>) \o <<"\n">>
         IN  piece \o PreLines(lines, i + 1, raw)

\* lines 330-349, for data outside skipped content: what is appended to cur
DataText(cur, data, in_pre) ==
    IF data = <<>> THEN <<>>
    ELSE IF in_pre
    THEN LET raw == Replace(Replace(data, <<"\r", "\n">>, <<"\n">>), <<"\r">>, <<"\n">>)
         IN  PreLines(Split(raw, <<"\n">>), 1, raw)
    ELSE LET s == Strip(CollapseRuns(data, Whitespace))
         IN  IF s = <<>> THEN <<>>
             ELSE IF cur = <<>> \/ EndsWith(cur, <<"\n">>) \/ EndsWith(cur, <<" ">>) THEN s
             ELSE <<" ">> \o s

InitParser ==
    /\ parts = <<>>
    /\ _skip_depth = 0
    /\ _in_pre = FALSE
    /\ last = NoToken
    /\ fed = 0
    /\ text = <<>>
    /\ stage = "input"
    /\ formatted = <<>>
    /\ once = <<>>
    /\ twice = <<>>
    /\ defaultTimeout = 0
    /\ pc = [c \in Callers |-> "idle"]
    /\ raw_url = [c \in Callers |-> [scheme |-> "https", userinfo |-> FALSE, host |-> ""]]
    /\ timeout_s = [c \in Callers |-> 15]
    /\ old_timeout = [c \in Callers |-> 0]
    /\ infos = [c \in Callers |-> NoInfos]
    /\ pending = [c \in Callers |-> "none"]
    /\ resp = [c \in Callers |-> NoResp]
    /\ rendered = [c \in Callers |-> NoOutcome]
    /\ streamStarted = [c \in Callers |-> FALSE]
    /\ hops = [c \in Callers |-> 0]
    /\ target = [c \in Callers |-> ""]
    /\ contacted = [c \in Callers |-> {}]
    /\ r_stream = [c \in Callers |-> "none"]
    /\ r_status = [c \in Callers |-> 0]
    /\ buf = [c \in Callers |-> 0]
    /\ streamOut = [c \in Callers |-> NoOutcome]
    /\ fetchOut = [c \in Callers |-> NoOutcome]

\* lines 294-311
handle_starttag ==
    /\ fed < MaxTokens
    /\ \E t \in Tags :
          /\ last' = [kind |-> "start", tag |-> t, skipped |-> (_skip_depth > 0)]
          /\ IF t \in SkipTags
             THEN /\ _skip_depth' = _skip_depth + 1
                  /\ UNCHANGED <<parts, _in_pre>>
             ELSE IF _skip_depth > 0
             THEN UNCHANGED <<parts, _skip_depth, _in_pre>>
             ELSE /\ parts' = CASE t \in StartBlockTags -> _ensure_paragraph_break(parts)
                                [] t = "br" -> _newline(parts)
                                [] t = "li" -> _newline(parts) \o <<"-", " ">>
                                [] t = "pre" -> _ensure_paragraph_break(parts)
                                [] OTHER -> parts
                  /\ _in_pre' = IF t = "pre" THEN TRUE ELSE _in_pre
                  /\ UNCHANGED _skip_depth
    /\ fed' = fed + 1
    /\ UNCHANGED <<valVars, fetchVars, textVars>>

\* lines 313-325
handle_endtag ==
    /\ fed < MaxTokens
    /\ \E t \in Tags :
          /\ last' = [kind |-> "end", tag |-> t, skipped |-> (_skip_depth > 0)]
          /\ IF t \in SkipTags /\ _skip_depth > 0
             THEN /\ _skip_depth' = _skip_depth - 1
                  /\ UNCHANGED <<parts, _in_pre>>
             ELSE IF _skip_depth > 0
             THEN UNCHANGED <<parts, _skip_depth, _in_pre>>
             ELSE /\ parts' = IF t = "pre" \/ t \in EndBlockTags
                              THEN _ensure_paragraph_break(parts)
                              ELSE parts
                  /\ _in_pre' = IF t = "pre" THEN FALSE ELSE _in_pre
                  /\ UNCHANGED _skip_depth
    /\ fed' = fed + 1
    /\ UNCHANGED <<valVars, fetchVars, textVars>>

\* lines 327-349
handle_data ==
    /\ fed < MaxTokens
    /\ \E data \in Datas :
          /\ last' = [kind |-> "data", tag |-> "", skipped |-> (_skip_depth > 0)]
          /\ parts' = IF _skip_depth > 0 THEN parts
                      ELSE parts \o DataText(parts, data, _in_pre)
    /\ fed' = fed + 1
    /\ UNCHANGED <<_skip_depth, _in_pre, valVars, fetchVars, textVars>>

NextParser ==
    \/ handle_starttag
    \/ handle_endtag
    \/ handle_data

SpecParser == InitParser /\ [][NextParser]_vars

(* --------------------- claims on the HTML parser ----------------------- *)

\* the tags the paragraph-break rule names: any of these when opened or closed
BreakTags == {"p", "div", "section", "article", "main", "header", "footer", "nav", "aside",
              "h1", "h2", "h3", "h4", "h5", "h6", "blockquote"}

\* the buffer ends in exactly two newlines
EndsInOneBlankLine(cur) ==
    /\ EndsWith(cur, <<"\n", "\n">>)
    /\ ~EndsWith(cur, <<"\n", "\n", "\n">>)

\* C10: right after an opening or closing tag of p, div, section, article, main,
\* header, footer, nav, aside, h1..h6 or blockquote, or a closing li, handled outside
\* skipped content, the buffer is empty or ends in exactly one blank line.
C10_BlockTagLeavesOneBlankLine ==
    (/\ ~last.skipped
     /\ \/ last.kind \in {"start", "end"} /\ last.tag \in BreakTags
        \/ last.kind = "end" /\ last.tag = "li")
    => (parts = <<>> \/ EndsInOneBlankLine(parts))

=============================================================================
